---- MODULE Spec2Model ----
(***************************************************************************)
(* Generation orchestration of the AI editor: the XState machine           *)
(* `editorMachine` (idle / generating / failure), the Gemini adapter       *)
(* `generateContinuation`, the ProseMirror document surface (getContent /  *)
(* insertContent) and the App component's edge-detection effect and        *)
(* "Continue Writing" handler.                                             *)
(*                                                                         *)
(* Texts are sequences of one-character strings.  An optional value        *)
(* (string | null) is a sequence of length 0 (null) or 1 (the value).      *)
(***************************************************************************)
EXTENDS Integers, Sequences, FiniteSets, TLC

\* ---------------------------------------------------------------- bounds
MaxCalls == 3      \* provider calls started in one behaviour
MaxDocSize == 3    \* the user types while the document is smaller than this

\* ------------------------------------------------------------ optionals
Null == <<>>
Some(v) == <<v>>
Val(o) == o[1]

\* ---------------------------------------------------------------- texts
Chars == {"a", " "}
Whitespace == {" ", "\n"}

\* JS truthiness of a string | null | undefined value
Truthy(o) == o # Null /\ Val(o) # <<>>

RECURSIVE trimStart(_)
trimStart(s) ==
  IF s # <<>> /\ Head(s) \in Whitespace THEN trimStart(Tail(s)) ELSE s

RECURSIVE trimEnd(_)
trimEnd(s) ==
  IF s # <<>> /\ s[Len(s)] \in Whitespace
    THEN trimEnd(SubSeq(s, 1, Len(s) - 1)) ELSE s

\* String.prototype.trim
trim(s) == trimEnd(trimStart(s))

\* ------------------------------------------------------ document surface
\* The document is a sequence of paragraphs, each the text of a paragraph.
RECURSIVE descendants(_)
descendants(d) ==
  IF d = <<>> THEN <<>> ELSE <<"\n">> \o Head(d) \o descendants(Tail(d))

getContent(d) == trim(descendants(d))

\* insertText at position doc.content.size, i.e. after the last paragraph
\* has closed: the text node is wrapped in a new paragraph.  Empty text is
\* a deleteRange of an empty range.
insertContent(d, text) == IF text = <<>> THEN d ELSE Append(d, text)

RECURSIVE DocSize(_)
DocSize(d) == IF d = <<>> THEN 0 ELSE 1 + Len(Head(d)) + DocSize(Tail(d))

\* --------------------------------------------------------------- adapter
NoTextError == [isError |-> TRUE, message |-> "No text generated from Gemini."]

\* What the provider call does: it returns a response whose text may be
\* absent or empty, or it throws a value.
ProviderErrors ==
  { [isError |-> TRUE, message |-> "rate limited"],
    [isError |-> TRUE, message |-> ""],
    [isError |-> FALSE, message |-> "rejected"] }
ProviderTexts == { Null, Some(<<>>), Some(<<"b">>), Some(<<" ", "c">>) }
ProviderOutcomes ==
  { [kind |-> "response", text |-> t, error |-> NoTextError] : t \in ProviderTexts }
    \cup { [kind |-> "throw", text |-> Null, error |-> e] : e \in ProviderErrors }

Resolved(text) == [resolved |-> TRUE, value |-> text, reason |-> NoTextError]
Rejected(error) == [resolved |-> FALSE, value |-> <<>>, reason |-> error]

generateContinuation_noGuard(outcome) ==
  IF outcome.kind = "response"
    THEN Resolved(IF outcome.text = Null THEN <<>> ELSE Val(outcome.text))
    ELSE Rejected(outcome.error)

\* The promise returned by the adapter for a provider outcome.
generateContinuation(outcome) ==
  IF outcome.kind = "response"
    THEN IF ~Truthy(outcome.text) THEN Rejected(NoTextError)
         ELSE Resolved(Val(outcome.text))
    ELSE Rejected(outcome.error)

\* The generateText actor: the event it raises when the promise settles.
generateText(outcome) ==
  LET result == generateContinuation(outcome)
  IN [type |-> IF result.resolved THEN "done" ELSE "error", currentText |-> <<>>,
      output |-> result.value, error |-> result.reason]

\* --------------------------------------------------------------- machine
UnknownError == "An unknown error occurred"

setError_keep(context, event) == context

setError_resets(context, event) ==
  [error |-> Some(IF event.error.isError THEN event.error.message ELSE UnknownError),
   lastGeneratedText |-> Null]

setError(context, event) ==
  [context EXCEPT !.error =
     Some(IF event.error.isError THEN event.error.message ELSE UnknownError)]

clearError_keep(context) == context

clearError(context) == [context EXCEPT !.error = Null]

setLastGenerated_onlyError(context, event) == [context EXCEPT !.error = Null]

setLastGenerated(context, event) ==
  [lastGeneratedText |-> Some(event.output), error |-> Null]

InitialContext == [error |-> Null, lastGeneratedText |-> Null]

Stay(value, context) == [value |-> value, context |-> context, entered |-> FALSE]
Goto(target, context) == [value |-> target, context |-> context, entered |-> TRUE]

idle(context, event) ==
  IF event.type = "GENERATE" THEN Goto("generating", clearError(context))
  ELSE Stay("idle", context)

generating_dropsError(context, event) ==
  IF event.type = "done" THEN Goto("idle", setLastGenerated(context, event))
  ELSE Stay("generating", context)

generating_retryCancels(context, event) ==
  IF event.type = "done" THEN Goto("idle", setLastGenerated(context, event))
  ELSE IF event.type = "error" THEN Goto("failure", setError(context, event))
  ELSE IF event.type = "RETRY" THEN Goto("idle", clearError(context))
  ELSE Stay("generating", context)

generating_reenter(context, event) ==
  IF event.type = "done" THEN Goto("idle", setLastGenerated(context, event))
  ELSE IF event.type = "error" THEN Goto("failure", setError(context, event))
  ELSE IF event.type = "GENERATE" THEN Goto("generating", clearError(context))
  ELSE Stay("generating", context)

generating(context, event) ==
  IF event.type = "done" THEN Goto("idle", setLastGenerated(context, event))
  ELSE IF event.type = "error" THEN Goto("failure", setError(context, event))
  ELSE Stay("generating", context)

failure_keepsErrorOnRetry(context, event) ==
  IF event.type = "RETRY" THEN Goto("idle", context)
  ELSE IF event.type = "GENERATE" THEN Goto("generating", clearError(context))
  ELSE Stay("failure", context)

failure_reset(context, event) ==
  IF event.type = "RETRY" THEN Goto("idle", clearError(context))
  ELSE IF event.type = "GENERATE" THEN Goto("generating", clearError(context))
  ELSE IF event.type = "RESET" THEN Goto("idle", InitialContext)
  ELSE Stay("failure", context)

failure_retryInvokes(context, event) ==
  IF event.type \in {"RETRY", "GENERATE"} THEN Goto("generating", clearError(context))
  ELSE Stay("failure", context)

failure(context, event) ==
  IF event.type = "RETRY" THEN Goto("idle", clearError(context))
  ELSE IF event.type = "GENERATE" THEN Goto("generating", clearError(context))
  ELSE Stay("failure", context)

\* One macrostep of the machine: the new state value and context, and
\* whether a transition entered its target state.
editorMachine(value, context, event) ==
  CASE value = "idle" -> idle(context, event)
    [] value = "generating" -> generating(context, event)
    [] value = "failure" -> failure(context, event)

invokeInput_noText(event) == <<>>

\* input of the invoked generateText actor
invokeInput(event) ==
  IF event.type = "GENERATE" /\ event.currentText # <<>> THEN event.currentText ELSE <<>>

\* ---------------------------------------------------------------- events
EventTexts == { <<>>, <<"a">> }
Event(type, currentText) ==
  [type |-> type, currentText |-> currentText, output |-> <<>>, error |-> NoTextError]
EditorEvent ==
  { Event("GENERATE", t) : t \in EventTexts } \cup { Event("RETRY", <<>>), Event("RESET", <<>>) }

\* ------------------------------------------------------------------ state
VARIABLES
  value,               \* state.value of the machine
  context,             \* state.context: error, lastGeneratedText
  calls,               \* provider calls started and not yet settled
  doc,                 \* the ProseMirror document
  previousStateValue,  \* previousStateValue.current in App
  effectPending,       \* a new snapshot was rendered, its effect has not run
  inserted,            \* history: the arguments of the insertContent calls
  successes,           \* history: the texts of the resolved provider calls
  started,             \* history: number of provider calls started
  last                 \* history: the step taken last

vars == <<value, context, calls, doc, previousStateValue, effectPending,
          inserted, successes, started, last>>

NoEvent == Event("none", <<>>)
NoCall == [currentText |-> <<>>, via |-> "none", from |-> "none", lastBefore |-> Null]
NoOutcome == [kind |-> "none", text |-> Null, error |-> NoTextError]

\* History record of a step: the operation, the event it delivered, the
\* machine state and the tracked previous state it started from.
Step(op, event) ==
  [op |-> op, event |-> event, from |-> value, prev |-> previousStateValue,
   call |-> NoCall, outcome |-> NoOutcome]

Init ==
  /\ value = "idle"
  /\ context = InitialContext
  /\ calls = <<>>
  /\ doc = << <<>> >>
  /\ previousStateValue = "idle"
  /\ effectPending = FALSE
  /\ inserted = <<>>
  /\ successes = <<>>
  /\ started = 0
  /\ last = Step("init", NoEvent)

Deliver_liveDocument(event, via) ==
  LET next == editorMachine(value, context, event)
      invoked == next.entered /\ next.value = "generating"
  IN /\ invoked => started < MaxCalls
     /\ value' = next.value
     /\ context' = next.context
     /\ calls' = IF invoked
                   THEN Append(calls, [currentText |-> getContent(doc), via |-> via,
                                       from |-> value,
                                       lastBefore |-> context.lastGeneratedText])
                   ELSE calls
     /\ started' = IF invoked THEN started + 1 ELSE started
     /\ effectPending' = (effectPending \/ next.entered)

\* The machine takes an event; entering `generating` invokes the actor,
\* which starts one provider call with the event's text.  A snapshot that
\* changed is rendered, so the effect of App is due.
Deliver(event, via) ==
  LET next == editorMachine(value, context, event)
      invoked == next.entered /\ next.value = "generating"
  IN /\ invoked => started < MaxCalls
     /\ value' = next.value
     /\ context' = next.context
     /\ calls' = IF invoked
                   THEN Append(calls, [currentText |-> invokeInput(event), via |-> via,
                                       from |-> value,
                                       lastBefore |-> context.lastGeneratedText])
                   ELSE calls
     /\ started' = IF invoked THEN started + 1 ELSE started
     /\ effectPending' = (effectPending \/ next.entered)

\* send(event) on the machine's actor.  Events are handled one at a time on
\* the event loop; the store subscription of useMachine renders a changed
\* snapshot and runs its effect before the next event is handled, hence
\* the guard ~effectPending on every step that feeds the machine.
Send(event) ==
  /\ ~effectPending
  /\ Deliver(event, "send")
  /\ last' = Step("send", event)
  /\ UNCHANGED <<doc, previousStateValue, inserted, successes>>

handleContinueWriting_noValidation ==
  LET currentText == getContent(doc)
  IN /\ ~effectPending
     /\ Deliver(Event("GENERATE", currentText), "entry")
     /\ last' = Step("handleContinueWriting", Event("GENERATE", currentText))
     /\ UNCHANGED <<doc, previousStateValue, inserted, successes>>

\* The "Continue Writing" button
handleContinueWriting ==
  LET currentText == getContent(doc)
  IN /\ ~effectPending
     /\ IF trim(currentText) = <<>>
          THEN /\ UNCHANGED <<value, context, calls, started, effectPending>>
               /\ last' = Step("handleContinueWriting", NoEvent)
          ELSE /\ Deliver(Event("GENERATE", currentText), "entry")
               /\ last' = Step("handleContinueWriting", Event("GENERATE", currentText))
     /\ UNCHANGED <<doc, previousStateValue, inserted, successes>>

\* The "Dismiss" button of the error banner, rendered in `failure`
Dismiss ==
  /\ ~effectPending
  /\ value = "failure"
  /\ Deliver(Event("RETRY", <<>>), "send")
  /\ last' = Step("Dismiss", Event("RETRY", <<>>))
  /\ UNCHANGED <<doc, previousStateValue, inserted, successes>>

\* The oldest provider call settles; the actor raises done or error.
Settle(outcome) ==
  /\ ~effectPending
  /\ calls # <<>>
  /\ LET event == generateText(outcome)
         next == editorMachine(value, context, event)
     IN /\ value' = next.value
        /\ context' = next.context
        /\ effectPending' = (effectPending \/ next.entered)
        /\ successes' = IF event.type = "done" THEN Append(successes, event.output)
                        ELSE successes
        /\ last' = [Step("Settle", event) EXCEPT !.call = Head(calls), !.outcome = outcome]
  /\ calls' = Tail(calls)
  /\ UNCHANGED <<doc, previousStateValue, inserted, started>>

BridgeEffect_level ==
  LET insert == value = "idle" /\ Truthy(context.lastGeneratedText)
  IN /\ doc' = IF insert THEN insertContent(doc, Val(context.lastGeneratedText)) ELSE doc
     /\ inserted' = IF insert THEN Append(inserted, Val(context.lastGeneratedText))
                    ELSE inserted
     /\ previousStateValue' = value
     /\ effectPending' = FALSE
     /\ last' = Step(IF effectPending THEN "effect" ELSE "re-effect", NoEvent)
     /\ UNCHANGED <<value, context, calls, successes, started>>

BridgeEffect_anyTarget ==
  LET insert == previousStateValue = "generating" /\ Truthy(context.lastGeneratedText)
  IN /\ doc' = IF insert THEN insertContent(doc, Val(context.lastGeneratedText)) ELSE doc
     /\ inserted' = IF insert THEN Append(inserted, Val(context.lastGeneratedText))
                    ELSE inserted
     /\ previousStateValue' = value
     /\ effectPending' = FALSE
     /\ last' = Step(IF effectPending THEN "effect" ELSE "re-effect", NoEvent)
     /\ UNCHANGED <<value, context, calls, successes, started>>

\* The effect of App that watches the machine state.  It runs for a newly
\* rendered snapshot ("effect") and may be re-evaluated while the snapshot
\* is unchanged ("re-effect").
BridgeEffect ==
  LET wasGenerating == previousStateValue = "generating"
      isIdle == value = "idle"
      insert == wasGenerating /\ isIdle /\ Truthy(context.lastGeneratedText)
  IN /\ doc' = IF insert THEN insertContent(doc, Val(context.lastGeneratedText)) ELSE doc
     /\ inserted' = IF insert THEN Append(inserted, Val(context.lastGeneratedText))
                    ELSE inserted
     /\ previousStateValue' = value
     /\ effectPending' = FALSE
     /\ last' = Step(IF effectPending THEN "effect" ELSE "re-effect", NoEvent)
     /\ UNCHANGED <<value, context, calls, successes, started>>

\* The user types a character at the end, or opens a new paragraph.
UserEdit ==
  /\ DocSize(doc) < MaxDocSize
  /\ \/ \E c \in Chars : doc' = [doc EXCEPT ![Len(doc)] = Append(@, c)]
     \/ doc' = Append(doc, <<>>)
  /\ last' = Step("UserEdit", NoEvent)
  /\ UNCHANGED <<value, context, calls, previousStateValue, effectPending,
                 inserted, successes, started>>

Next ==
  \/ \E event \in EditorEvent : Send(event)
  \/ handleContinueWriting
  \/ Dismiss
  \/ \E outcome \in ProviderOutcomes : Settle(outcome)
  \/ BridgeEffect
  \/ UserEdit

Spec == Init /\ [][Next]_vars

\* The provider call of an invoked actor settles, and a rendered snapshot
\* gets its effect run.
FairSpec ==
  /\ Spec
  /\ WF_vars(\E outcome \in ProviderOutcomes : Settle(outcome))
  /\ WF_vars(BridgeEffect)

\* ------------------------------------------------------------ properties
IsGenerateStep(step) ==
  step.op \in {"send", "handleContinueWriting"} /\ step.event.type = "GENERATE"

IsEffectStep(step) == step.op \in {"effect", "re-effect"}

\* C1: at most one provider call is unresolved at any time, and a GENERATE
\* received in `generating` starts no call and leaves the state value, the
\* context and the in-flight call as they are.
C1_SingleFlight ==
  /\ [](Len(calls) <= 1)
  /\ [][ (value = "generating" /\ IsGenerateStep(last'))
           => (value' = value /\ context' = context /\ calls' = calls
               /\ started' = started) ]_vars

C1_Witness ==
  /\ IsGenerateStep(last)
  /\ last.from = "generating"
  /\ last.event.currentText # <<>>
  /\ Len(calls) = 1

\* C2: when the effect has run for the current snapshot, the texts inserted
\* into the document are exactly the texts of the provider successes, in
\* order; before it has run, at most the latest success is still missing.
C2_ExactlyOnce ==
  /\ ~effectPending => inserted = successes
  /\ effectPending =>
       \/ inserted = successes
       \/ successes # <<>> /\ inserted = SubSeq(successes, 1, Len(successes) - 1)

C2_Witness ==
  /\ last.op = "re-effect"
  /\ Len(successes) = 2
  /\ successes[1] = successes[2]
  /\ inserted = successes

\* C3: a step inserts into the document exactly when it is the effect
\* observing the machine in `idle` right after having observed it in
\* `generating`, with lastGeneratedText set.
C3_InsertIffSuccessEdge ==
  [][ (inserted' # inserted)
        <=> /\ IsEffectStep(last')
            /\ previousStateValue = "generating"
            /\ value = "idle"
            /\ context.lastGeneratedText # Null ]_vars

C3_Witness ==
  /\ last.op = "effect"
  /\ last.prev = "generating"
  /\ value = "failure"
  /\ context.lastGeneratedText # Null
  /\ Len(inserted) = 1

\* C4: when the provider returns a non-empty text t for the call of a
\* machine in `generating`, the same step leaves the machine in `idle` with
\* error null and lastGeneratedText = t, and the effect that observes this
\* snapshot inserts t.
C4_SuccessAtomic ==
  [][ /\ (/\ last'.op = "Settle"
          /\ value = "generating"
          /\ last'.outcome.kind = "response"
          /\ Truthy(last'.outcome.text))
        => /\ value' = "idle"
           /\ context'.error = Null
           /\ context'.lastGeneratedText = last'.outcome.text
      /\ (/\ last.op = "Settle"
          /\ last.event.type = "done"
          /\ IsEffectStep(last'))
        => /\ value = "idle"
           /\ inserted' = Append(inserted, Val(last.outcome.text)) ]_vars

C4_Witness ==
  /\ last.op = "Settle"
  /\ last.from = "generating"
  /\ last.outcome.kind = "response"
  /\ last.outcome.text = Some(<<" ", "c">>)
  /\ last.call.lastBefore = Some(<<"b">>)
  /\ value = "idle"

\* The message the machine stores for a rejection value: the message of an
\* Error, the fixed fallback text for any other value.
NormalizedMessage(error) ==
  IF error.isError THEN error.message ELSE "An unknown error occurred"

IsBlank(d) == \A i \in 1..Len(d) : \A j \in 1..Len(d[i]) : d[i][j] \in Whitespace

HasText(text) == \E i \in 1..Len(text) : text[i] \notin Whitespace

\* C6: "Continue Writing" on a blank document changes neither the machine
\* state, the context, the provider calls nor the document, in every state
\* of the machine; no call started through the button carries a text that is
\* empty or only whitespace.
C6_BlankRejected ==
  /\ [][ (last'.op = "handleContinueWriting" /\ IsBlank(doc))
           => /\ last'.event.type # "GENERATE"
              /\ UNCHANGED <<value, context, calls, started, doc, inserted>> ]_vars
  /\ [](\A i \in 1..Len(calls) :
          calls[i].via = "entry" => HasText(calls[i].currentText))

C6_Witness ==
  /\ last.op = "handleContinueWriting"
  /\ last.from = "failure"
  /\ IsBlank(doc)
  /\ DocSize(doc) = 3

\* C7: a provider response whose text is absent or empty takes the machine
\* from `generating` to `failure` with an error set and lastGeneratedText
\* kept; the effect observing it inserts nothing, and no success ever
\* carries the empty text.
C7_EmptyResponseFails ==
  /\ [][ /\ (/\ last'.op = "Settle"
             /\ value = "generating"
             /\ last'.outcome.kind = "response"
             /\ last'.outcome.text \in {Null, Some(<<>>)})
           => /\ value' = "failure"
              /\ context'.error # Null
              /\ context'.lastGeneratedText = context.lastGeneratedText
              /\ successes' = successes
         /\ (/\ last.op = "Settle"
             /\ last.outcome.kind = "response"
             /\ last.outcome.text \in {Null, Some(<<>>)}
             /\ IsEffectStep(last'))
           => /\ doc' = doc
              /\ inserted' = inserted ]_vars
  /\ [](\A i \in 1..Len(successes) : successes[i] # <<>>)

C7_Witness ==
  /\ last.op = "Settle"
  /\ last.outcome.kind = "response"
  /\ last.outcome.text = Some(<<>>)
  /\ value = "failure"
  /\ context.lastGeneratedText = Some(<<"b">>)

\* C8: a GENERATE with a non-empty text taken in `idle` leads to
\* `generating` with error null and lastGeneratedText as before, and starts
\* one provider call that carries that text.
C8_GenerateFromIdle ==
  [][ (/\ IsGenerateStep(last')
       /\ last'.event.currentText # <<>>
       /\ value = "idle")
        => /\ value' = "generating"
           /\ context'.error = Null
           /\ context'.lastGeneratedText = context.lastGeneratedText
           /\ Len(calls') = Len(calls) + 1
           /\ calls'[Len(calls')].currentText = last'.event.currentText ]_vars

C8_Witness ==
  /\ IsGenerateStep(last)
  /\ last.from = "idle"
  /\ last.event.currentText = <<"a">>
  /\ value = "generating"
  /\ context.lastGeneratedText # Null

\* C9: a GENERATE taken in `failure` leads in one step to `generating` with
\* error null and starts one provider call with the event's text; the effect
\* then observes failure -> generating, and when that call succeeds the
\* effect observing the success inserts its text once, and a re-evaluation
\* of the effect inserts nothing more.
C9_GenerateFromFailure ==
  [][ /\ (IsGenerateStep(last') /\ value = "failure")
        => /\ value' = "generating"
           /\ context'.error = Null
           /\ Len(calls') = Len(calls) + 1
           /\ calls'[Len(calls')].currentText = last'.event.currentText
      /\ (IsGenerateStep(last) /\ last.from = "failure" /\ IsEffectStep(last'))
        => /\ previousStateValue = "failure"
           /\ previousStateValue' = "generating"
           /\ context.error = Null
      /\ (/\ last.op = "Settle"
          /\ last.call.from = "failure"
          /\ last.event.type = "done"
          /\ IsEffectStep(last'))
        => inserted' = Append(inserted, last.event.output)
      /\ (IsEffectStep(last) /\ IsEffectStep(last'))
        => inserted' = inserted ]_vars

C9_Witness ==
  /\ last.op = "Settle"
  /\ last.call.from = "failure"
  /\ last.event.type = "done"
  /\ value = "idle"
  /\ context.error = Null
  /\ Len(inserted) = 1
  /\ Len(successes) = 2

\* C10: RETRY taken in `failure` leads to `idle` with error null, keeps
\* lastGeneratedText, starts no provider call and leaves the document as it
\* is, as does the effect that observes failure -> idle; a provider call is
\* started only by a GENERATE.
C10_RetryDismisses ==
  [][ /\ (last'.event.type = "RETRY" /\ value = "failure")
        => /\ value' = "idle"
           /\ context'.error = Null
           /\ context'.lastGeneratedText = context.lastGeneratedText
           /\ calls' = calls
           /\ started' = started
           /\ doc' = doc
           /\ inserted' = inserted
      /\ (last.event.type = "RETRY" /\ last.from = "failure" /\ IsEffectStep(last'))
        => /\ doc' = doc
           /\ inserted' = inserted
      /\ (started' # started) => IsGenerateStep(last') ]_vars

C10_Witness ==
  /\ last.op = "effect"
  /\ last.prev = "failure"
  /\ value = "idle"
  /\ context.lastGeneratedText = Some(<<"b">>)
  /\ inserted = << <<"b">> >>
  /\ calls = <<>>

\* C11: the error stored for a rejection value is the value's message or
\* the fixed fallback text, and it is never the empty string, whether the
\* value is an Error with a message, an Error with an empty message or not
\* an Error at all.
C11_ErrorNeverEmpty ==
  [][ (/\ last'.op = "Settle"
       /\ value = "generating"
       /\ last'.outcome.kind = "throw")
        => /\ context'.error \in { Some(last'.outcome.error.message),
                                   Some("An unknown error occurred") }
           /\ context'.error # Some("") ]_vars

\* C12: a step starts a provider call exactly when it is a GENERATE taken
\* in `idle` or `failure`, and then it starts one call whose text is the
\* currentText of that event; every other step (RETRY, RESET, an ignored
\* GENERATE, a settled call, the effect, a user edit) starts none, and no
\* step changes the text of a call that is in flight.
C12_OneCallPerGenerate ==
  [][ /\ (started' # started)
        <=> (IsGenerateStep(last') /\ value \in {"idle", "failure"})
      /\ (started' # started)
        => /\ started' = started + 1
           /\ calls' = Append(calls, calls'[Len(calls')])
           /\ calls'[Len(calls')].currentText = last'.event.currentText
      /\ (started' = started)
        => \/ calls' = calls
           \/ last'.op = "Settle" /\ calls' = Tail(calls) /\ last'.call = Head(calls)
    ]_vars

C12_Witness ==
  /\ last.op = "UserEdit"
  /\ value = "generating"
  /\ Len(calls) = 1
  /\ calls[1].via = "entry"
  /\ calls[1].currentText = <<"a">>
  /\ getContent(doc) = <<"a", "a">>

\* C13: a RETRY taken while error is null changes nothing: the state
\* value, the context, the provider calls and the document stay as they
\* are and no effect becomes due; and in `failure` a second RETRY leaves
\* the machine where the first one put it.
C13_RetryIdempotent ==
  /\ [][ (last'.event.type = "RETRY" /\ context.error = Null)
           => /\ value \in {"idle", "generating"}
              /\ UNCHANGED <<value, context, calls, started, doc, inserted,
                             previousStateValue, effectPending>> ]_vars
  /\ [](value = "failure" =>
          LET once == editorMachine(value, context, Event("RETRY", <<>>))
              twice == editorMachine(once.value, once.context, Event("RETRY", <<>>))
          IN /\ once.value = "idle"
             /\ twice.value = once.value
             /\ twice.context = once.context
             /\ ~twice.entered)

C13_Witness ==
  /\ last.op = "send"
  /\ last.event.type = "RETRY"
  /\ last.from = "generating"
  /\ value = "generating"
  /\ Len(calls) = 1
  /\ context.lastGeneratedText # Null

\* C14: when the effect consumes a success, the text of the document
\* afterwards is its text before followed by the generated text, with the
\* machine in `idle` and lastGeneratedText equal to the generated text.
C14_AppendsAtEnd ==
  [][ (IsEffectStep(last') /\ inserted' # inserted)
        => /\ value' = "idle"
           /\ context'.lastGeneratedText = Some(inserted'[Len(inserted')])
           /\ getContent(doc') = getContent(doc) \o inserted'[Len(inserted')] ]_vars

\* C15: in every reachable state error is set exactly when the machine is
\* in `failure`.
C15_ErrorIffFailure == (context.error # Null) <=> (value = "failure")

C15_Witness ==
  /\ value = "failure"
  /\ context.error = Some("")
  /\ last.op = "Settle"

\* C17: lastGeneratedText is null until the first provider success and
\* afterwards holds the text of the latest success, which is never empty;
\* only a step on which a provider call resolves with a text changes it.
C17_LastGeneratedOnlyBySuccess ==
  /\ [](IF successes = <<>>
          THEN context.lastGeneratedText = Null
          ELSE /\ context.lastGeneratedText = Some(successes[Len(successes)])
               /\ context.lastGeneratedText # Some(<<>>))
  /\ [][ (context'.lastGeneratedText # context.lastGeneratedText)
           => /\ last'.op = "Settle"
              /\ last'.outcome.kind = "response"
              /\ context'.lastGeneratedText = last'.outcome.text ]_vars

C17_Witness ==
  /\ last.op = "Settle"
  /\ last.outcome.kind = "throw"
  /\ last.call.lastBefore = Some(<<" ", "c">>)
  /\ context.lastGeneratedText = Some(<<" ", "c">>)
  /\ Len(inserted) = 1

\* C18: RESET is taken in no state: it leaves the state value, the context,
\* the provider calls and the document as they are and makes no effect due.
C18_ResetIgnored ==
  [][ (last'.event.type = "RESET")
        => UNCHANGED <<value, context, calls, started, doc, inserted,
                       previousStateValue, effectPending>> ]_vars

C18_Witness ==
  /\ last.event.type = "RESET"
  /\ last.from = "failure"
  /\ value = "failure"
  /\ context.error = Some("rate limited")
  /\ context.lastGeneratedText # Null

\* C16: a machine in `generating` eventually is in `idle` or `failure`; a
\* success that is not yet in the document eventually is; and in `idle` and
\* in `failure` the machine takes every GENERATE, entering `generating`.
C16_EpisodesEnd ==
  /\ (value = "generating") ~> (value \in {"idle", "failure"})
  /\ (Len(inserted) < Len(successes)) ~> (inserted = successes)
  /\ [](value \in {"idle", "failure"} =>
          \A text \in EventTexts :
            LET next == editorMachine(value, context, Event("GENERATE", text))
            IN next.value = "generating" /\ next.entered)

C16_Witness ==
  /\ last.op = "effect"
  /\ last.prev = "generating"
  /\ value = "idle"
  /\ Len(inserted) = 2
  /\ inserted[1] # inserted[2]
  /\ inserted = successes
  /\ started = 3

====
